---- MODULE Spec2Model ----
(***************************************************************************)
(* A model of app_patent_gdrive.py: the Streamlit script that detects a    *)
(* patent identifier in a chat prompt, matches it against the cached       *)
(* Google Drive listing, and downloads / uploads / summarizes / deletes.   *)
(*                                                                         *)
(* Text is modelled as a sequence of one-character strings, so that the    *)
(* regular expression, os.path.splitext, re.sub and str.lower are computed *)
(* character by character as Python computes them.                         *)
(***************************************************************************)
EXTENDS Integers, Sequences, FiniteSets, TLC

\* ------------------------------------------------------------------ bounds
\* Longest text put before and after an identifier in a generated prompt.
MaxPad == 2
\* Most digits of a generated identifier.
MaxDigits == 2
\* Most records of a generated Drive listing.
MaxFiles == 2
\* Most messages the transcript may hold before a new prompt is accepted.
MaxMsgs == 3
\* Clock ticks of the session.
MaxTicks == 2

\* ------------------------------------------------------- program constants
\* ttl of st.cache_data on list_drive_files, in seconds.
ListTtl == 3600
\* drive_files[:5] of the topic branch.
TopicSlice == 5

\* ------------------------------------------------------------- characters
UpperLetters == <<"A", "B", "C", "D", "E", "F", "G", "H", "I", "J", "K", "L", "M",
                  "N", "O", "P", "Q", "R", "S", "T", "U", "V", "W", "X", "Y", "Z">>
LowerLetters == <<"a", "b", "c", "d", "e", "f", "g", "h", "i", "j", "k", "l", "m",
                  "n", "o", "p", "q", "r", "s", "t", "u", "v", "w", "x", "y", "z">>
Digits == {"0", "1", "2", "3", "4", "5", "6", "7", "8", "9"}
Letters == {UpperLetters[i] : i \in DOMAIN UpperLetters}
             \cup {LowerLetters[i] : i \in DOMAIN LowerLetters}

\* \s of a Python str pattern (the whitespace of the modelled alphabet).
IsSpace(c) == c \in {" ", "\t"}
\* \d
IsDigit(c) == c \in Digits
\* [A-Z] under re.IGNORECASE
IsLetter(c) == c \in Letters
\* \w: letters, digits and the underscore
IsWord(c) == IsLetter(c) \/ IsDigit(c) \/ c = "_"

\* str.lower() on one character
LowerChar(c) ==
  IF \E i \in DOMAIN UpperLetters : UpperLetters[i] = c
    THEN LowerLetters[CHOOSE i \in DOMAIN UpperLetters : UpperLetters[i] = c]
    ELSE c

\* str.lower()
Lower(s) == [i \in 1..Len(s) |-> LowerChar(s[i])]

\* ------------------------------------------------- PATENT_NUMBER_REGEX (82)
\* (?:US|KR|CN|JP|EP), compared under re.IGNORECASE
PrefixKeys == {<<"u", "s">>, <<"k", "r">>, <<"c", "n">>, <<"j", "p">>, <<"e", "p">>}

\* \b between q[p] and q[p+1] (p = 0: the start, p = Len(q): the end)
WordBoundary(q, p) ==
  LET left == p >= 1 /\ p <= Len(q) /\ IsWord(q[p])
      right == p + 1 >= 1 /\ p + 1 <= Len(q) /\ IsWord(q[p + 1])
  IN left # right

\* The prefix alternative at q[i], q[i+1]
PrefixAt(q, i) ==
  /\ i >= 1
  /\ i + 1 <= Len(q)
  /\ <<LowerChar(q[i]), LowerChar(q[i + 1])>> \in PrefixKeys

\* Length of the longest run of whitespace (of digits) that starts at q[p]
RECURSIVE SpaceRun(_, _)
SpaceRun(q, p) ==
  IF p <= Len(q) /\ IsSpace(q[p]) THEN 1 + SpaceRun(q, p + 1) ELSE 0

RECURSIVE DigitRun(_, _)
DigitRun(q, p) ==
  IF p <= Len(q) /\ IsDigit(q[p]) THEN 1 + DigitRun(q, p + 1) ELSE 0

\* (variant) the group without its optional separator: [A-Z]\d?
GroupEndNoSep(q, p, sep, dig) ==
  IF /\ sep = 0
     /\ p + 1 + dig <= Len(q)
     /\ IsLetter(q[p + 1])
     /\ (dig = 1 => IsDigit(q[p + 2]))
    THEN p + 1 + dig
    ELSE 0

\* (variant) the group without its optional digit: [\s.]?[A-Z]
GroupEndNoDigit(q, p, sep, dig) ==
  IF /\ dig = 0
     /\ p + sep + 1 <= Len(q)
     /\ (sep = 1 => (IsSpace(q[p + 1]) \/ q[p + 1] = "."))
     /\ IsLetter(q[p + sep + 1])
    THEN p + sep + 1
    ELSE 0

\* [\s.]?[A-Z]\d? after q[p], taking sep separator and dig digit characters:
\* the index of its last character, 0 when it does not match
GroupEnd(q, p, sep, dig) ==
  IF /\ p + sep + 1 + dig <= Len(q)
     /\ (sep = 1 => (IsSpace(q[p + 1]) \/ q[p + 1] = "."))
     /\ IsLetter(q[p + sep + 1])
     /\ (dig = 1 => IsDigit(q[p + sep + 2]))
    THEN p + sep + 1 + dig
    ELSE 0

\* (?:[\s.]?[A-Z]\d?)?\b after q[p]: the alternatives in the order the
\* backtracking matcher tries them (each optional item greedy), and the end
\* of the first one that is followed by \b; 0 when none is
TailEnd(q, p) ==
  LET cands == <<GroupEnd(q, p, 1, 1), GroupEnd(q, p, 1, 0),
                 GroupEnd(q, p, 0, 1), GroupEnd(q, p, 0, 0), p>>
      ok(k) == cands[k] # 0 /\ WordBoundary(q, cands[k])
  IN IF \E k \in DOMAIN cands : ok(k)
       THEN cands[CHOOSE k \in DOMAIN cands :
                    ok(k) /\ \A m \in DOMAIN cands : ok(m) => k <= m]
       ELSE 0

\* The whole pattern anchored at q[i]: the index of the match's last
\* character, 0 when the pattern does not match there.  \s* and [\d]+ are
\* greedy: the longest whitespace run, then the longest digit run, for which
\* the rest matches.
MatchEndAt(q, i) ==
  IF ~(WordBoundary(q, i - 1) /\ PrefixAt(q, i))
    THEN 0
    ELSE
      LET tries == {t \in (0..SpaceRun(q, i + 2)) \X (1..Len(q)) :
                      /\ t[2] <= DigitRun(q, i + 2 + t[1])
                      /\ TailEnd(q, i + 1 + t[1] + t[2]) # 0}
      IN IF tries = {}
           THEN 0
           ELSE LET best == CHOOSE t \in tries :
                              \A u \in tries :
                                \/ u[1] < t[1]
                                \/ (u[1] = t[1] /\ u[2] <= t[2])
                IN TailEnd(q, i + 1 + best[1] + best[2])

\* No match (re.search returned None)
NoMatch == <<>>

\* re.search tries the start positions from left to right: the first match
\* found from position i on, NoMatch when there is none
RECURSIVE SearchFrom(_, _)
SearchFrom(q, i) ==
  IF i > Len(q) THEN NoMatch
  ELSE LET e == MatchEndAt(q, i)
       IN IF e # 0 THEN SubSeq(q, i, e) ELSE SearchFrom(q, i + 1)

\* PATENT_NUMBER_REGEX.search(prompt), then .group(1) of the match
PatternSearch(q) == SearchFrom(q, 1)

\* ------------------------------------------------------ normalization (120)
IsStripped(c) == IsSpace(c) \/ c = "."

\* (variant) the substitution without .lower()
NormalizeNoLower(s) == SelectSeq(s, LAMBDA c : ~IsStripped(c))

\* re.sub(r'[\s.]', '', s).lower()
Normalize(s) == Lower(SelectSeq(s, LAMBDA c : ~IsStripped(c)))

\* ------------------------------------------------- os.path.splitext (125)
\* str.rfind of one character: the largest index holding it, 0 when absent
LastIndexOf(s, c) ==
  IF \E i \in 1..Len(s) : s[i] = c
    THEN CHOOSE i \in 1..Len(s) : s[i] = c /\ \A j \in 1..Len(s) : s[j] = c => j <= i
    ELSE 0

\* os.path.splitext(name)[0] (posixpath): the extension starts at the last
\* period after the last "/", unless only periods precede it in the file name
SplitextRoot(name) ==
  LET sepIndex == LastIndexOf(name, "/")
      dotIndex == LastIndexOf(name, ".")
  IN IF /\ dotIndex > sepIndex
        /\ \E k \in (sepIndex + 1)..(dotIndex - 1) : name[k] # "."
       THEN SubSeq(name, 1, dotIndex - 1)
       ELSE name

\* filename_normalized of line 125
FilenameNormalized(name) == Normalize(SplitextRoot(name))

\* ------------------------------------------------------------------ state
VARIABLES
  gemini_api_key,            \* sidebar text_input (29): "" when left empty
  drive_folder_id,           \* sidebar text_input (31)
  gcp_service_account_json,  \* sidebar text_area (33): "", "bad" or "good"
  messages,                  \* st.session_state.messages
  service_cache,             \* st.cache_resource entry of get_gdrive_service
  listing_cache,             \* st.cache_data entries of list_drive_files
  now,                       \* the clock, in seconds
  pc,                        \* where the running script is; "idle" between runs
  event,                     \* the interaction that started the current run
  prompt,                    \* value of st.chat_input in the current run
  chat_shown,                \* the last run rendered st.chat_input
  drive_service,             \* local of the run (91)
  drive_files,               \* local of the run (96)
  patent_match,              \* local (116), as patent_match.group(1)
  patent_number_query,       \* local (120)
  scan_i,                    \* position of the for loop of line 124
  target_file_info,          \* local (123, 127)
  response,                  \* outcome of model.generate_content (151)
  log                        \* calls and reports of the current run, in order

vars == <<gemini_api_key, drive_folder_id, gcp_service_account_json, messages,
          service_cache, listing_cache, now, pc, event, prompt, chat_shown,
          drive_service, drive_files, patent_match, patent_number_query,
          scan_i, target_file_info, response, log>>

inputs == <<gemini_api_key, drive_folder_id, gcp_service_account_json>>
caches == <<service_cache, listing_cache>>
locals == <<drive_service, drive_files, patent_match, patent_number_query,
            scan_i, target_file_info, response>>

\* None of Python
None == "None"

\* None as the value of target_file_info (123); a record's id is never empty
NoFile == [id |-> "", name |-> <<>>]

\* -------------------------------------------------------- inputs of a session
ApiKeys == {"", "key"}
FolderIds == {"", "folder"}
Credentials == {"", "bad", "good"}

File(i, n) == [id |-> i, name |-> n]

NameUS1234567A1 == <<"U", "S", "1", "2", "3", "4", "5", "6", "7", "A", "1", ".", "p", "d", "f">>
NameKR5B1 == <<"K", "R", " ", "5", ".", "B", "1", ".", "P", "D", "F">>

\* What files().list may return for the folder
RemoteListings ==
  { <<>>,
    <<File("1", NameUS1234567A1)>>,
    <<File("1", NameKR5B1), File("2", NameUS1234567A1)>> }

PromptTopic == <<"b", "a", "t", "t", "e", "r", "y", " ", "t", "r", "e", "n", "d", "s">>
PromptHit == <<"u", "s", " ", "1", "2", "3", "4", "5", "6", "7", " ", "a", "1", "?">>
PromptMiss == <<"s", "e", "e", " ", "E", "P", "1", "2", "B", "1">>
PromptCommas == <<"U", "S", " ", "1", ",", "2", "3", "4", ",", "5", "6", "7", " ", "A", "1">>

\* What the user may type into st.chat_input
Prompts == {PromptTopic, PromptHit, PromptMiss}

\* response.text of a successful summarization
SummaryText == <<"s", "u", "m", "m", "a", "r", "y">>

\* Seconds by which the clock advances in one tick
TickSeconds == 1800

\* ------------------------------------------------------------------ helpers
NoEntry == [cached |-> FALSE, files |-> <<>>, at |-> 0]

\* (variant) any() where the code has all()
ConfigCompleteAny ==
  gemini_api_key # "" \/ drive_folder_id # "" \/ gcp_service_account_json # ""

\* all([gemini_api_key, drive_folder_id, gcp_service_account_json]) (86)
ConfigComplete ==
  gemini_api_key # "" /\ drive_folder_id # "" /\ gcp_service_account_json # ""

\* An st.cache_data(ttl=3600) entry can still be served
EntryFresh(e) == e.cached /\ now < e.at + ListTtl

\* Locals of a run before the script assigns them
ResetLocals ==
  /\ drive_service' = None
  /\ drive_files' = <<>>
  /\ patent_match' = NoMatch
  /\ patent_number_query' = <<>>
  /\ scan_i' = 0
  /\ target_file_info' = NoFile
  /\ response' = None

\* The script starts over: a fresh run with nothing rendered yet
StartRun(ev, p) ==
  /\ pc' = "start"
  /\ event' = ev
  /\ prompt' = p
  /\ chat_shown' = FALSE
  /\ log' = <<>>
  /\ ResetLocals

\* The run ends; the next interaction starts another
EndRun(report) ==
  /\ pc' = "idle"
  /\ log' = log \o report

\* except Exception as e: st.error(...) (159-160)
SummaryError(calls) == EndRun(calls \o <<"error_summary">>)

Init ==
  /\ gemini_api_key = ""
  /\ drive_folder_id = ""
  /\ gcp_service_account_json = ""
  /\ messages = <<>>
  /\ service_cache = "unset"
  /\ listing_cache = [f \in FolderIds |-> NoEntry]
  /\ now = 0
  /\ pc = "start"
  /\ event = "load"
  /\ prompt = <<>>
  /\ chat_shown = FALSE
  /\ drive_service = None
  /\ drive_files = <<>>
  /\ patent_match = NoMatch
  /\ patent_number_query = <<>>
  /\ scan_i = 0
  /\ target_file_info = NoFile
  /\ response = None
  /\ log = <<>>

\* ------------------------------------------------------------- interactions
\* The user edits the sidebar inputs (29-33); Streamlit reruns the script
EditConfig ==
  /\ pc = "idle"
  /\ \E k \in ApiKeys, f \in FolderIds, c \in Credentials :
       /\ <<k, f, c>> # inputs
       /\ gemini_api_key' = k
       /\ drive_folder_id' = f
       /\ gcp_service_account_json' = c
  /\ StartRun("edit", <<>>)
  /\ UNCHANGED <<messages, caches, now>>

\* (variant) the reset also clears st.cache_data
ClickResetClearsCache ==
  /\ pc = "idle"
  /\ messages' = <<>>
  /\ listing_cache' = [f \in FolderIds |-> NoEntry]
  /\ StartRun("reset", <<>>)
  /\ UNCHANGED <<inputs, service_cache, now>>

\* The reset button (45-47): clear the transcript, st.rerun()
ClickReset ==
  /\ pc = "idle"
  /\ messages' = <<>>
  /\ StartRun("reset", <<>>)
  /\ UNCHANGED <<inputs, caches, now>>

\* The user submits a prompt in st.chat_input (110), rendered by the last run
SubmitPrompt ==
  /\ pc = "idle"
  /\ chat_shown
  /\ Len(messages) < MaxMsgs
  /\ \E p \in Prompts : StartRun("submit", p)
  /\ UNCHANGED <<inputs, messages, caches, now>>

\* Time passes between runs
Tick ==
  /\ pc = "idle"
  /\ now < MaxTicks * TickSeconds
  /\ now' = now + TickSeconds
  /\ UNCHANGED <<inputs, messages, caches, pc, event, prompt, chat_shown, locals, log>>

\* ------------------------------------------------------------ the script run
\* 86-87: a required input is empty
ConfigIncomplete ==
  /\ pc = "start"
  /\ ~ConfigComplete
  /\ EndRun(<<"info_config">>)
  /\ UNCHANGED <<inputs, messages, caches, now, event, prompt, chat_shown, locals>>

\* 89-94 with get_gdrive_service (52-63): its only argument starts with an
\* underscore, so st.cache_resource keeps one entry whatever the credentials
Authenticate ==
  /\ pc = "start"
  /\ ConfigComplete
  /\ LET made == IF gcp_service_account_json = "good" THEN "service" ELSE None
         svc == IF service_cache = "unset" THEN made ELSE service_cache
         calls == IF service_cache # "unset" THEN <<>>
                  ELSE IF made = None THEN <<"authenticate", "error_auth">>
                  ELSE <<"authenticate">>
     IN /\ service_cache' = svc
        /\ drive_service' = svc
        /\ IF svc = None
             THEN EndRun(calls)
             ELSE pc' = "list" /\ log' = log \o calls
  /\ UNCHANGED <<inputs, messages, listing_cache, now, event, prompt, chat_shown,
                 drive_files, patent_match, patent_number_query, scan_i,
                 target_file_info, response>>

\* 96-99: what the run does once drive_files is known
AfterListing(files, calls) ==
  /\ drive_files' = files
  /\ IF files = <<>>
       THEN EndRun(calls \o <<"warning_nofiles">>)
       ELSE pc' = "chat" /\ log' = log \o calls

\* 96, 66: the listing is served from st.cache_data
ListFilesCached ==
  /\ pc = "list"
  /\ EntryFresh(listing_cache[drive_folder_id])
  /\ AfterListing(listing_cache[drive_folder_id].files, <<>>)
  /\ UNCHANGED <<inputs, messages, caches, now, event, prompt, chat_shown,
                 drive_service, patent_match, patent_number_query, scan_i,
                 target_file_info, response>>

\* 96, 67-79: list_drive_files runs; files().list answers or raises, and the
\* returned value (the empty list after an error) is cached
ListFilesRemote ==
  /\ pc = "list"
  /\ ~EntryFresh(listing_cache[drive_folder_id])
  /\ \E ok \in BOOLEAN, items \in RemoteListings :
       LET files == IF ok THEN items ELSE <<>>
           calls == IF ok THEN <<"files_list">> ELSE <<"files_list", "error_list">>
       IN /\ (~ok => items = <<>>)
          /\ listing_cache' = [listing_cache EXCEPT ![drive_folder_id] =
                                 [cached |-> TRUE, files |-> files, at |-> now]]
          /\ AfterListing(files, calls)
  /\ UNCHANGED <<inputs, messages, service_cache, now, event, prompt, chat_shown,
                 drive_service, patent_match, patent_number_query, scan_i,
                 target_file_info, response>>

\* 101-113: replay the transcript, render st.chat_input; a submitted prompt
\* is appended as the user's message
ChatInput ==
  /\ pc = "chat"
  /\ chat_shown' = TRUE
  /\ IF event = "submit"
       THEN /\ messages' = Append(messages, [role |-> "user", content |-> prompt])
            /\ pc' = "detect"
            /\ log' = log
       ELSE /\ messages' = messages
            /\ EndRun(<<>>)
  /\ UNCHANGED <<inputs, caches, now, event, prompt, locals>>

\* 116-121: the detector found an identifier; normalize it and start the scan
DetectPatent ==
  /\ pc = "detect"
  /\ LET m == PatternSearch(prompt)
     IN /\ m # NoMatch
        /\ patent_match' = m
        /\ patent_number_query' = Normalize(m)
  /\ target_file_info' = NoFile
  /\ scan_i' = 1
  /\ pc' = "scan"
  /\ log' = Append(log, "info_searching")
  /\ UNCHANGED <<inputs, messages, caches, now, event, prompt, chat_shown,
                 drive_service, drive_files, response>>

\* (variant) the topic branch falls back to the first listed file
TopicSearchFallback ==
  /\ pc = "detect"
  /\ PatternSearch(prompt) = NoMatch
  /\ patent_match' = NoMatch
  /\ scan_i' = 1
  /\ target_file_info' = drive_files[1]
  /\ pc' = "download"
  /\ log' = Append(log, "warning_topic")
  /\ UNCHANGED <<inputs, messages, caches, now, event, prompt, chat_shown,
                 drive_service, drive_files, patent_number_query, response>>

\* 165-180: no identifier; the loop over drive_files[:5] only passes
TopicSearch ==
  /\ pc = "detect"
  /\ PatternSearch(prompt) = NoMatch
  /\ patent_match' = NoMatch
  /\ scan_i' = IF Len(drive_files) < TopicSlice THEN Len(drive_files) ELSE TopicSlice
  /\ EndRun(<<"warning_topic", "info_poc", "error_unsupported">>)
  /\ UNCHANGED <<inputs, messages, caches, now, event, prompt, chat_shown,
                 drive_service, drive_files, patent_number_query,
                 target_file_info, response>>

\* key occurs somewhere in text
Contains(text, key) ==
  \E i \in 1..(Len(text) - Len(key) + 1) : SubSeq(text, i, i + Len(key) - 1) = key

\* (variant) a partial match: "in" where the code has "=="
NameContains(key, name) == Contains(FilenameNormalized(name), key)

\* 126: the comparison that selects a record
NameMatches(key, name) == key = FilenameNormalized(name)

\* 124-131: one iteration of the for loop; a match sets target_file_info and
\* breaks, and the truthy record starts the download
ScanStep ==
  /\ pc = "scan"
  /\ scan_i <= Len(drive_files)
  /\ IF NameMatches(patent_number_query, drive_files[scan_i].name)
       THEN /\ target_file_info' = drive_files[scan_i]
            /\ scan_i' = scan_i
            /\ pc' = "download"
       ELSE /\ target_file_info' = target_file_info
            /\ scan_i' = scan_i + 1
            /\ pc' = "scan"
  /\ UNCHANGED <<inputs, messages, caches, now, event, prompt, chat_shown,
                 drive_service, drive_files, patent_match, patent_number_query,
                 response, log>>

\* (variant) with no match the first record is taken
NotFoundTakesFirst ==
  /\ pc = "scan"
  /\ scan_i > Len(drive_files)
  /\ target_file_info' = drive_files[1]
  /\ pc' = "download"
  /\ UNCHANGED <<inputs, messages, caches, now, event, prompt, chat_shown,
                 drive_service, drive_files, patent_match, patent_number_query,
                 scan_i, response, log>>

\* 124, 130, 161-162: the loop ran out of records; target_file_info is None
NotFound ==
  /\ pc = "scan"
  /\ scan_i > Len(drive_files)
  /\ EndRun(<<"error_notfound">>)
  /\ UNCHANGED <<inputs, messages, caches, now, event, prompt, chat_shown, locals>>

\* 134-139: files().get_media and the chunked download
Download ==
  /\ pc = "download"
  /\ \E ok \in BOOLEAN :
       IF ok
         THEN pc' = "upload" /\ log' = Append(log, "get_media")
         ELSE SummaryError(<<"get_media_failed">>)
  /\ UNCHANGED <<inputs, messages, caches, now, event, prompt, chat_shown, locals>>

\* 143-147: genai.upload_file; on success the artifact exists at the service
Upload ==
  /\ pc = "upload"
  /\ \E ok \in BOOLEAN :
       IF ok
         THEN pc' = "generate" /\ log' = Append(log, "upload_file")
         ELSE SummaryError(<<"upload_file_failed">>)
  /\ UNCHANGED <<inputs, messages, caches, now, event, prompt, chat_shown, locals>>

\* 150-151: model.generate_content raises, or returns a response whose
\* .text raises (no valid part), or returns a response with text.  An
\* exception goes to the handler of line 159 that deletes nothing.
Generate ==
  /\ pc = "generate"
  /\ \E r \in {"raise", "notext", "text"} :
       /\ response' = r
       /\ IF r = "raise"
            THEN SummaryError(<<"generate_content_failed">>)
            ELSE pc' = "delete" /\ log' = Append(log, "generate_content")
  /\ UNCHANGED <<inputs, messages, caches, now, event, prompt, chat_shown,
                 drive_service, drive_files, patent_match, patent_number_query,
                 scan_i, target_file_info>>

\* 154: genai.delete_file
DeleteFile ==
  /\ pc = "delete"
  /\ \E ok \in BOOLEAN :
       IF ok
         THEN pc' = "render" /\ log' = Append(log, "delete_file")
         ELSE SummaryError(<<"delete_file_failed">>)
  /\ UNCHANGED <<inputs, messages, caches, now, event, prompt, chat_shown, locals>>

\* (variant) the assistant's message is appended before response.text is read
RenderAlways ==
  /\ pc = "render"
  /\ messages' = Append(messages, [role |-> "assistant", content |-> SummaryText])
  /\ IF response = "text" THEN EndRun(<<"markdown_response">>) ELSE SummaryError(<<>>)
  /\ UNCHANGED <<inputs, caches, now, event, prompt, chat_shown, locals>>

\* 156-157: show response.text and append it as the assistant's message
Render ==
  /\ pc = "render"
  /\ IF response = "text"
       THEN /\ messages' = Append(messages,
                                  [role |-> "assistant", content |-> SummaryText])
            /\ EndRun(<<"markdown_response">>)
       ELSE /\ messages' = messages
            /\ SummaryError(<<>>)
  /\ UNCHANGED <<inputs, caches, now, event, prompt, chat_shown, locals>>

Next ==
  \/ EditConfig
  \/ ClickReset
  \/ SubmitPrompt
  \/ Tick
  \/ ConfigIncomplete
  \/ Authenticate
  \/ ListFilesCached
  \/ ListFilesRemote
  \/ ChatInput
  \/ DetectPatent
  \/ TopicSearch
  \/ ScanStep
  \/ NotFound
  \/ Download
  \/ Upload
  \/ Generate
  \/ DeleteFile
  \/ Render

Spec == Init /\ [][Next]_vars

\* ------------------------------------------- inputs of the matching pipeline
\* All texts over the characters cs of length at most n
RECURSIVE TextsUpTo(_, _)
TextsUpTo(cs, n) ==
  IF n = 0 THEN {<<>>}
  ELSE LET shorter == TextsUpTo(cs, n - 1)
       IN shorter \cup {Append(t, c) : t \in shorter, c \in cs}

\* Text around an identifier: letters, digits and spaces, or one punctuation
\* character
PadChars == {"x", "7", " "}
Pads == TextsUpTo(PadChars, MaxPad) \cup {<<".">>, <<",">>, <<"_">>}

\* An earlier, shorter identifier-like token, then a space
EarlierTokens == {<<"U", "S", "1", " ">>, <<"e", "p", " ", "2", " ">>}

\* Digit strings of the generated identifiers
DigitTexts == TextsUpTo({"1", "2"}, MaxDigits) \ {<<>>}

\* Identifiers of the shape prefix + digits + letter + digit
ShapedCores ==
  {pre \o d \o <<"A", "1">> : pre \in {<<"U", "S">>, <<"e", "p">>},
                              d \in {t \in DigitTexts : \A k \in DOMAIN t : t[k] = "1"}}

PaddedPrompts ==
  {a \o c \o b : a \in Pads \cup {t \o x : t \in EarlierTokens, x \in {<<>>, <<"x">>}},
                 c \in ShapedCores, b \in Pads}

\* The jurisdiction prefixes in every letter case
PrefixPairs == {<<"U", "u">>, <<"S", "s">>, <<"K", "k">>, <<"R", "r">>, <<"C", "c">>,
                <<"N", "n">>, <<"J", "j">>, <<"P", "p">>, <<"E", "e">>}
CasesOf(c) == {pr[1] : pr \in {x \in PrefixPairs : x[2] = c}} \cup {c}
PrefixTexts == {<<a, b>> : a \in Letters, b \in Letters} \cap
                 UNION {{<<a, b>> : a \in CasesOf(k[1]), b \in CasesOf(k[2])} : k \in PrefixKeys}

\* prefix, then nothing / whitespace / a period, then digits, then an
\* optional kind code
FormPrompts ==
  {pre \o sep \o d \o kind :
     pre \in PrefixTexts,
     sep \in {<<>>, <<" ">>, <<" ", "\t">>, <<".">>},
     d \in DigitTexts,
     kind \in {<<>>, <<".", "b", "2">>}}

NameExact == <<"U", "S", "1", "A", "1", ".", "p", "d", "f">>
NameSpaced == <<"u", "s", " ", "1", ".", "a", "1", ".", "P", "D", "F">>
NameLonger == <<"U", "S", "1", "A", "1", "x", ".", "p", "d", "f">>
NameLeading == <<"x", "U", "S", "1", "A", "1", ".", "p", "d", "f">>
NameShorter == <<"U", "S", "1", ".", "p", "d", "f">>
NameNoExt == <<"U", "S", "1", "A", "1">>
NameDotKind == <<"U", "S", "1", ".", "A", "1">>
NameOther == <<"d", "i", "r", ".", "v", "1", "/", "U", "S", "1", "A", "1">>
NamePool == {NameExact, NameSpaced, NameLonger, NameLeading, NameShorter,
             NameNoExt, NameDotKind, NameOther}

\* Listings of one to MaxFiles records; the id of a record is its position
Listings ==
  UNION {{[i \in 1..n |-> File(ToString(i), names[i])] : names \in [1..n -> NamePool]}
           : n \in 1..MaxFiles}

PromptUS1A1 == <<"f", "i", "n", "d", " ", "U", "S", "1", "A", "1">>
PromptUS1 == <<"u", "s", " ", "1", "!">>
PromptSpaces == <<"U", "S", " ", "1", "2", "3", "4", "5", "6", "7", " ", "A", "1">>

\* Listings that hold the record {id: "1", name: "US1234567A1.pdf"}
RecordListings ==
  { <<File("1", NameUS1234567A1)>>,
    <<File("0", NameKR5B1), File("1", NameUS1234567A1)>>,
    <<File("1", NameUS1234567A1), File("2", NameUS1234567A1)>> }

\* The prompt and the listing a query is handled with
MatchInputs ==
  ((PaddedPrompts \cup FormPrompts) \X {<<File("1", NameExact)>>})
    \cup ({PromptUS1A1, PromptUS1, PromptTopic} \X Listings)
    \cup ({PromptCommas, PromptSpaces, PromptHit} \X RecordListings)

\* A prompt has just been appended (111) in a run whose listing is drive_files
InitMatch ==
  /\ gemini_api_key = "key"
  /\ drive_folder_id = "folder"
  /\ gcp_service_account_json = "good"
  /\ service_cache = "service"
  /\ now = 0
  /\ pc = "detect"
  /\ event = "submit"
  /\ chat_shown = TRUE
  /\ drive_service = "service"
  /\ patent_match = NoMatch
  /\ patent_number_query = <<>>
  /\ scan_i = 0
  /\ target_file_info = NoFile
  /\ response = None
  /\ log = <<>>
  /\ \E in \in MatchInputs :
       /\ prompt = in[1]
       /\ drive_files = in[2]
       /\ messages = <<[role |-> "user", content |-> in[1]]>>
       /\ listing_cache = [f \in FolderIds |->
                             IF f = "folder"
                               THEN [cached |-> TRUE, files |-> in[2], at |-> 0]
                               ELSE NoEntry]

NextMatch ==
  \/ DetectPatent
  \/ TopicSearch
  \/ ScanStep
  \/ NotFound

\* Detection, normalization and matching of one prompt against one listing
SpecMatch == InitMatch /\ [][NextMatch]_vars

\* ================================================================== claims
Events(l) == {l[i] : i \in DOMAIN l}
CountOf(l, e) == Cardinality({i \in DOMAIN l : l[i] = e})

\* Calls to the download, upload, summarization and cleanup services
ServiceCalls == {"get_media", "get_media_failed", "upload_file", "upload_file_failed",
                 "generate_content", "generate_content_failed",
                 "delete_file", "delete_file_failed"}

\* The current run received a prompt and reached st.chat_input (110-111)
QueryHandled == event = "submit" /\ chat_shown

\* The last message of the transcript is m
LastIs(m) == Len(messages) >= 1 /\ messages[Len(messages)] = m

UserMessage == [role |-> "user", content |-> prompt]
AssistantMessage == [role |-> "assistant", content |-> SummaryText]

\* C1: when a query's handling has ended and an artifact was uploaded in it,
\* cleanup (delete_file) was invoked exactly once in that run, whether the
\* summarization call succeeded or raised.
C1_CleanupOnEveryExit ==
  (pc = "idle" /\ QueryHandled /\ "upload_file" \in Events(log))
    => CountOf(log, "delete_file") + CountOf(log, "delete_file_failed") = 1

\* C2: a handled query in which the detector finds no identifier issues no
\* download, upload, summarization or cleanup call, never enters the scan,
\* and ends with the report that topic search is unsupported.
C2_NoIdentifierNoCalls ==
  (QueryHandled /\ PatternSearch(prompt) = NoMatch)
    => /\ pc \in {"detect", "idle"}
       /\ Events(log) \cap ServiceCalls = {}
       /\ target_file_info = NoFile
       /\ pc = "idle" => /\ log # <<>>
                         /\ log[Len(log)] = "error_unsupported"
                         /\ CountOf(log, "error_unsupported") = 1

C2_Witness ==
  /\ pc = "idle"
  /\ QueryHandled
  /\ prompt = PromptTopic
  /\ Len(drive_files) = 2
  /\ Len(messages) = 3
  /\ log[Len(log)] = "error_unsupported"

\* No record of the listing has a normalized base-name equal to the key
NoRecordMatches ==
  \A i \in DOMAIN drive_files :
    FilenameNormalized(drive_files[i].name) # patent_number_query

\* C3: when an identifier was detected and no record's normalized base-name
\* equals the normalized identifier, the handling never leaves the scan
\* except to end: no download, upload or summarization call is issued, the
\* run ends with the not-found report, st.chat_input stays rendered, and the
\* step that reports not-found leaves the transcript as it was.
C3_NotFound ==
  /\ [](  (QueryHandled /\ patent_match # NoMatch /\ NoRecordMatches)
            => /\ pc \in {"scan", "idle"}
               /\ Events(log) \cap ServiceCalls = {}
               /\ target_file_info = NoFile
               /\ LastIs(UserMessage)
               /\ pc = "idle" => /\ log # <<>>
                                 /\ log[Len(log)] = "error_notfound"
                                 /\ chat_shown )
  /\ [][ (pc = "scan" /\ pc' = "idle") => messages' = messages ]_vars

C3_Witness ==
  /\ pc = "idle"
  /\ QueryHandled
  /\ prompt = PromptMiss
  /\ patent_number_query = <<"e", "p", "1", "2", "b", "1">>
  /\ Len(drive_files) = 2
  /\ Len(messages) = 3
  /\ messages[2] = AssistantMessage
  /\ log = <<"info_searching", "error_notfound">>

\* C5: while one of the three required inputs is empty, a run authenticates
\* nothing, lists nothing, renders no chat input and issues no call: it
\* reports once that the configuration is incomplete and ends.
C5_ConfigGuard ==
  (gemini_api_key = "" \/ drive_folder_id = "" \/ gcp_service_account_json = "")
    => /\ pc \in {"start", "idle"}
       /\ ~chat_shown
       /\ drive_service = None
       /\ drive_files = <<>>
       /\ pc = "start" => log = <<>>
       /\ pc = "idle" => log = <<"info_config">>

C5_Witness ==
  /\ pc = "idle"
  /\ gemini_api_key # ""
  /\ drive_folder_id # ""
  /\ gcp_service_account_json = ""
  /\ service_cache = "service"
  /\ listing_cache["folder"].cached
  /\ messages # <<>>
  /\ log = <<"info_config">>

\* The cached listing of the current folder can still be served
ListingFresh ==
  /\ listing_cache[drive_folder_id].cached
  /\ now < listing_cache[drive_folder_id].at + ListTtl

\* C6: the reset click empties the transcript whatever it held and changes
\* neither cache; in the run it starts, a listing that has not expired is
\* taken from the cache without a files().list call, and an expired or
\* missing one is listed again.
C6_ResetKeepsCaches ==
  /\ [][ (pc = "idle" /\ pc' = "start" /\ event' = "reset")
           => /\ messages' = <<>>
              /\ listing_cache' = listing_cache
              /\ service_cache' = service_cache ]_vars
  /\ [][ (event = "reset" /\ pc = "list" /\ ListingFresh)
           => /\ drive_files' = listing_cache[drive_folder_id].files
              /\ listing_cache' = listing_cache
              /\ "files_list" \notin Events(log') ]_vars
  /\ [][ (event = "reset" /\ pc = "list" /\ pc' # "list" /\ ~ListingFresh)
           => "files_list" \in Events(log') ]_vars

C6_Witness ==
  /\ event = "reset"
  /\ pc = "idle"
  /\ chat_shown
  /\ messages = <<>>
  /\ now > 0
  /\ Len(drive_files) = 2
  /\ drive_files = listing_cache[drive_folder_id].files
  /\ log = <<>>

\* Download, upload, summarization (a response with text) and cleanup all
\* succeeded in the current run
AllSucceeded ==
  /\ {"get_media", "upload_file", "generate_content", "delete_file"} \subseteq Events(log)
  /\ response = "text"

\* C10: the transcript changes only by a reset (to empty), by appending the
\* submitted prompt as a user message before detection starts, or by
\* appending one assistant message at the end of a run; while a query is
\* handled its user message is the last one, and when its handling has ended
\* an assistant message follows the user message if and only if download,
\* upload, summarization and cleanup all succeeded.  Reports are never
\* appended.
C10_Transcript ==
  /\ [](  QueryHandled
            => /\ pc # "idle" => LastIs(UserMessage)
               /\ pc = "idle" =>
                    IF AllSucceeded
                      THEN /\ LastIs(AssistantMessage)
                           /\ Len(messages) >= 2
                           /\ messages[Len(messages) - 1] = UserMessage
                      ELSE LastIs(UserMessage) )
  /\ [][ \/ messages' = messages
         \/ (pc = "idle" /\ event' = "reset" /\ messages' = <<>>)
         \/ (pc = "chat" /\ pc' = "detect" /\ event = "submit"
               /\ messages' = Append(messages, UserMessage))
         \/ (pc = "render" /\ pc' = "idle" /\ log' = Append(log, "markdown_response")
               /\ messages' = Append(messages, AssistantMessage)) ]_vars

C10_Witness ==
  /\ pc = "idle"
  /\ QueryHandled
  /\ AllSucceeded
  /\ Len(messages) = 3
  /\ messages[1].role = "user"
  /\ messages[2].role = "user"
  /\ messages[3] = AssistantMessage

\* The normalized base-name each generated file name is expected to have:
\* extension removed, whitespace and periods stripped, lower-cased
ExpectedBase(name) ==
  CASE name = NameExact -> <<"u", "s", "1", "a", "1">>
    [] name = NameSpaced -> <<"u", "s", "1", "a", "1">>
    [] name = NameLonger -> <<"u", "s", "1", "a", "1", "x">>
    [] name = NameLeading -> <<"x", "u", "s", "1", "a", "1">>
    [] name = NameShorter -> <<"u", "s", "1">>
    [] name = NameNoExt -> <<"u", "s", "1", "a", "1">>
    [] name = NameDotKind -> <<"u", "s", "1">>
    [] name = NameOther -> <<"d", "i", "r", "v", "1", "/", "u", "s", "1", "a", "1">>
    [] name = NameKR5B1 -> <<"k", "r", "5", "b", "1">>
    [] name = NameUS1234567A1 -> <<"u", "s", "1", "2", "3", "4", "5", "6", "7", "a", "1">>

\* Positions of the records whose expected base-name equals the query key
ExactHits == {i \in DOMAIN drive_files :
                ExpectedBase(drive_files[i].name) = patent_number_query}

\* C4: during the scan no record before the loop position equals the key;
\* when the scan has ended, the result is the record at the least position
\* whose normalized base-name equals the key exactly (so never a record that
\* only contains the key or is a prefix or suffix of it, and the earliest of
\* duplicates), and "not found" when there is no such record.
C4_FirstExactMatch ==
  patent_match # NoMatch =>
    /\ pc = "scan" => /\ \A i \in ExactHits : i >= scan_i
                      /\ target_file_info = NoFile
    /\ pc = "download" =>
         /\ ExactHits # {}
         /\ \A i \in ExactHits : scan_i <= i
         /\ scan_i \in ExactHits
         /\ target_file_info = drive_files[scan_i]
    /\ pc = "idle" => ExactHits = {} /\ target_file_info = NoFile

C4_Witness ==
  /\ pc = "download"
  /\ Len(drive_files) = 2
  /\ drive_files[1].name = NameLonger
  /\ drive_files[2].name = NameSpaced
  /\ patent_number_query = <<"u", "s", "1", "a", "1">>
  /\ target_file_info = File("2", NameSpaced)

TheRecord == File("1", NameUS1234567A1)
HoldsTheRecord == \E i \in DOMAIN drive_files : drive_files[i] = TheRecord
ScanEnded == pc \in {"download", "idle"}

\* C7 (as claimed): with the record in the listing, the query
\* "US 1,234,567 A1" ends the scan with that record as the result.
C7_CommaQueryMatches ==
  (prompt = PromptCommas /\ HoldsTheRecord /\ ScanEnded)
    => target_file_info = TheRecord

\* C7 (amended): with the record in the listing, the query "US 1234567 A1"
\* (no commas) ends the scan with that record as the result; the query
\* "US 1,234,567 A1" is detected only as "US 1", is normalized to "us1" and
\* ends with "not found".
C7_SpacedQueryMatches ==
  /\ (prompt = PromptSpaces /\ HoldsTheRecord /\ pc # "detect")
       => /\ patent_match = PromptSpaces
          /\ patent_number_query = <<"u", "s", "1", "2", "3", "4", "5", "6", "7", "a", "1">>
          /\ pc \in {"scan", "download"}
          /\ pc = "download" => target_file_info = TheRecord
  /\ (prompt = PromptCommas /\ HoldsTheRecord /\ pc # "detect")
       => /\ patent_match = <<"U", "S", " ", "1">>
          /\ patent_number_query = <<"u", "s", "1">>
          /\ pc \in {"scan", "idle"}
          /\ target_file_info = NoFile

C7_Witness ==
  /\ prompt = PromptSpaces
  /\ drive_files = <<File("0", NameKR5B1), TheRecord>>
  /\ pc = "download"
  /\ target_file_info = TheRecord

\* q[i..j] has the shape prefix + digits + one letter + one digit
ShapeAt(q, i, j) ==
  /\ 1 <= i
  /\ i + 4 <= j
  /\ j <= Len(q)
  /\ <<LowerChar(q[i]), LowerChar(q[i + 1])>> \in
       {<<"u", "s">>, <<"k", "r">>, <<"c", "n">>, <<"j", "p">>, <<"e", "p">>}
  /\ \A k \in (i + 2)..(j - 2) : IsDigit(q[k])
  /\ IsLetter(q[j - 1])
  /\ IsDigit(q[j])

Shapes(q) == {ij \in (1..Len(q)) \X (1..Len(q)) : ShapeAt(q, ij[1], ij[2])}

\* No letter, digit or underscore touches q[i..j]
Delimited(q, i, j) ==
  /\ i = 1 \/ ~IsWord(q[i - 1])
  /\ j = Len(q) \/ ~IsWord(q[j + 1])

\* Before q[i] a prefix starts a word and is followed, after optional
\* whitespace, by a digit
EarlierToken(q, i) ==
  \E k \in 1..(i - 1) :
    /\ k + 1 < i
    /\ <<LowerChar(q[k]), LowerChar(q[k + 1])>> \in
         {<<"u", "s">>, <<"k", "r">>, <<"c", "n">>, <<"j", "p">>, <<"e", "p">>}
    /\ k = 1 \/ ~IsWord(q[k - 1])
    /\ \E d \in (k + 2)..Len(q) :
         /\ IsDigit(q[d])
         /\ \A m \in (k + 2)..(d - 1) : IsSpace(q[m])

\* C8 (as claimed): when the prompt contains a substring of the shape, the
\* detector's result is such a substring, whatever surrounds it.
C8_AnySurroundings ==
  (pc # "detect" /\ Shapes(prompt) # {})
    => \E ij \in Shapes(prompt) : patent_match = SubSeq(prompt, ij[1], ij[2])

\* C8 (amended): when the prompt contains a substring of the shape that no
\* letter, digit or underscore touches on either side, and no identifier-like
\* token (a prefix starting a word, optional whitespace, a digit) starts
\* before it, the detector's result is exactly that substring.
C8_DelimitedFirst ==
  pc # "detect" =>
    \A ij \in Shapes(prompt) :
      (Delimited(prompt, ij[1], ij[2]) /\ ~EarlierToken(prompt, ij[1]))
        => patent_match = SubSeq(prompt, ij[1], ij[2])

C8_Witness ==
  /\ pc # "detect"
  /\ \E ij \in Shapes(prompt) :
       /\ ij[1] = 3
       /\ ij[2] + 2 = Len(prompt)
       /\ prompt[1] = "7"
       /\ prompt[Len(prompt)] = "x"
       /\ Delimited(prompt, ij[1], ij[2])
       /\ patent_match = SubSeq(prompt, ij[1], ij[2])

\* q from position k on is a non-empty run of digits
DigitsFrom(q, k) == k <= Len(q) /\ \A m \in k..Len(q) : IsDigit(q[m])

HasPrefix(q) ==
  /\ Len(q) >= 3
  /\ <<LowerChar(q[1]), LowerChar(q[2])>> \in
       {<<"u", "s">>, <<"k", "r">>, <<"c", "n">>, <<"j", "p">>, <<"e", "p">>}

\* Number of whitespace characters between the prefix and the digits of a
\* prompt of the form prefix + whitespace* + digits; -1 for any other prompt
FormGap(q) ==
  IF HasPrefix(q) /\ \E w \in 0..(Len(q) - 3) :
                       (\A m \in 3..(2 + w) : IsSpace(q[m])) /\ DigitsFrom(q, 3 + w)
    THEN CHOOSE w \in 0..(Len(q) - 3) :
           (\A m \in 3..(2 + w) : IsSpace(q[m])) /\ DigitsFrom(q, 3 + w)
    ELSE -1

\* The prompt is prefix + "." + digits
PeriodForm(q) == HasPrefix(q) /\ q[3] = "." /\ DigitsFrom(q, 4)

\* The key of prefix + gap + digits: the lower-cased prefix, then the digits
FormKey(q, from) == <<LowerChar(q[1]), LowerChar(q[2])>> \o SubSeq(q, from, Len(q))

\* C9 (as claimed): prefix + digits, prefix + space + digits and
\* prefix + period + digits, in any letter case, are each detected whole
\* and normalize to the lower-cased prefix followed by the digits.
C9_PeriodAfterPrefix ==
  pc # "detect" =>
    /\ FormGap(prompt) >= 0 =>
         /\ patent_match = prompt
         /\ patent_number_query = FormKey(prompt, 3 + FormGap(prompt))
    /\ PeriodForm(prompt) =>
         /\ patent_match = prompt
         /\ patent_number_query = FormKey(prompt, 4)

\* C9 (amended): prefix + digits and prefix + whitespace + digits, in any
\* letter case, are each detected whole and normalize to the same key, the
\* lower-cased prefix followed by the digits; prefix + period + digits is
\* not detected (a period is accepted only before the kind-code letter).
C9_WhitespaceAfterPrefix ==
  pc # "detect" =>
    /\ FormGap(prompt) >= 0 =>
         /\ patent_match = prompt
         /\ patent_number_query = FormKey(prompt, 3 + FormGap(prompt))
    /\ PeriodForm(prompt) =>
         /\ patent_match = NoMatch
         /\ pc = "idle"

C9_Witness ==
  /\ pc # "detect"
  /\ prompt = <<"k", "R", " ", "\t", "1", "2">>
  /\ patent_match = prompt
  /\ patent_number_query = <<"k", "r", "1", "2">>

====
